---- MODULE Spec2Model ----
(***************************************************************************)
(* furia: a BitTorrent client.  Three parts are modelled:                   *)
(*   - the wire codec   (src/src/messages.rs),        specification Spec    *)
(*   - the entry point  (src/src/main.rs, tracker.rs), specification        *)
(*     SpecMain                                                             *)
(*   - the peer sessions and the piece ledger (peers.rs and download.rs,    *)
(*     declared in main.rs but absent from the sources; modelled from       *)
(*     spec.md sections 3, 4.2, 4.3 and 5), specification SpecSwarm         *)
(***************************************************************************)
EXTENDS Integers, Sequences, FiniteSets, TLC

VARIABLES
    overflow_checks,  \* build profile: TRUE = arithmetic overflow panics (debug)
    codec_pc,         \* "idle" | "returned"
    call,             \* the Message function called and its arguments
    ret,              \* what the call produced: [panicked, bytes]
    \* ---- main (src/src/main.rs)
    main_pc,          \* the statement main is about to run
    args_len,         \* env::args().len()
    torrent,          \* piece count of the parsed TorrentFile (0 before parsing)
    tracker_body,     \* the bytes of the "peers" string the tracker sent
    body_received,    \* TRUE once the tracker's reply has arrived
    peers,            \* tracker_response.peers
    added,            \* the arguments of the add_peer calls, in call order
    sessions,         \* addresses for which connect_to_peers spawned a session
    ledger,           \* Download: piece index -> status
    outcome,          \* "running" | "usage" | "panic" | "error" | "success"
    \* ---- Piece Ledger and Peer Sessions (spec.md 3, 4.2, 4.3, 5)
    status,           \* piece -> "Missing" | "InProgress" | "Verifying" | "Complete"
    blocks,           \* piece -> block -> "none" (bit clear) | "good" | "bad" (bytes held)
    local_bitfield,   \* the aggregate local Bitfield: the set of pieces whose bit is set
    sess,             \* session -> [phase, peer_choking, am_interested, remote, inflight]
    lock_owner,       \* the session inside receive_block (0: the ledger lock is free)
    lock_piece,       \* the piece that session is writing
    last_write        \* the status the target piece had at the latest receive_block

codec_vars == <<overflow_checks, codec_pc, call, ret>>

main_vars == <<main_pc, args_len, torrent, tracker_body, body_received, peers,
               added, sessions, ledger, outcome>>

swarm_vars == <<status, blocks, local_bitfield, sess, lock_owner, lock_piece, last_write>>

vars == <<codec_vars, main_vars, swarm_vars>>

----------------------------------------------------------------------------
(* Bounds of the model *)

\* largest piece count of a torrent handed to Message::bitfield
MaxPieces == 9

\* most peers in a tracker reply
MaxPeers == 3

\* largest piece count of the torrent main downloads
MaxTorrentPieces == 3

\* Peer Sessions sharing the ledger
NumSessions == 2

\* pieces of the torrent the sessions download
NumPieces == 2

\* blocks in a piece
BlocksPerPiece == 2

----------------------------------------------------------------------------
(* Integer helpers: Rust's fixed-width arithmetic *)

U8 == 0..255

RECURSIVE BitXor(_, _)
\* a ^ b on non-negative integers
BitXor(a, b) ==
    IF a = 0 /\ b = 0 THEN 0
    ELSE (((a % 2) + (b % 2)) % 2) + 2 * BitXor(a \div 2, b \div 2)

\* u32::to_be_bytes
to_be_bytes(x) ==
    << (x \div 16777216) % 256, (x \div 65536) % 256, (x \div 256) % 256, x % 256 >>

\* vec![0_u8; n]
Zeros(n) == [i \in 1..n |-> 0]

----------------------------------------------------------------------------
(* src/src/messages.rs *)

\* pub const BLOCK_BYTES: u8 = 2 ^ 14;   (^ is bitwise xor in Rust)
BLOCK_BYTES == BitXor(2, 14)

\* #[repr(u8)] enum MessageType: discriminants in declaration order
MessageType ==
    [ Choke |-> 0, Unchoke |-> 1, Interested |-> 2, NotInterested |-> 3,
      Have |-> 4, Bitfield |-> 5, Request |-> 6, Piece |-> 7, Cancel |-> 8,
      Port |-> 9 ]

Returned(bytes) == [panicked |-> FALSE, bytes |-> bytes]
Panicked == [panicked |-> TRUE, bytes |-> <<>>]

Message_choke == Returned(to_be_bytes(0) \o <<MessageType.Choke>>)

Message_unchoke == Returned(to_be_bytes(1) \o <<MessageType.Unchoke>>)

Message_interested == Returned(to_be_bytes(1) \o <<MessageType.Interested>>)

Message_not_interested == Returned(to_be_bytes(1) \o <<MessageType.NotInterested>>)

\* parse_torrent::bitfield_size is imported by messages.rs but defined in no
\* source file; spec.md 4.1: one bit per piece, padded to whole bytes.
bitfield_size(pieces) == (pieces + 7) \div 8

\* The Download argument is never read.
Message_bitfield(pieces, download) ==
    LET len == bitfield_size(pieces) + 1
    IN  Returned(to_be_bytes(len) \o <<MessageType.Bitfield>> \o Zeros(len * 4))

\* piece_offset * BLOCK_BYTES is a u8 multiplication: past 255 it panics when
\* the build checks overflow and wraps otherwise.
Message_request(piece_index, piece_offset, checks) ==
    LET product == piece_offset * BLOCK_BYTES
    IN  IF product > 255 /\ checks
        THEN Panicked
        ELSE Returned(to_be_bytes(13) \o
                      <<MessageType.Request, piece_index, product % 256, BLOCK_BYTES>>)

----------------------------------------------------------------------------
(* The codec as a state machine: one call at a time *)

NoCall == [fn |-> "none", piece_index |-> 0, piece_offset |-> 0,
           pieces |-> 0, complete |-> {}]

CodecInit ==
    /\ overflow_checks \in BOOLEAN
    /\ codec_pc = "idle"
    /\ call = NoCall
    /\ ret = Returned(<<>>)

Finish(c, r) ==
    /\ codec_pc = "idle"
    /\ codec_pc' = "returned"
    /\ call' = c
    /\ ret' = r
    /\ UNCHANGED <<overflow_checks, main_vars, swarm_vars>>

Call_choke ==
    /\ codec_pc = "idle"
    /\ Finish([NoCall EXCEPT !.fn = "choke"], Message_choke)

Call_unchoke ==
    /\ codec_pc = "idle"
    /\ Finish([NoCall EXCEPT !.fn = "unchoke"], Message_unchoke)

Call_interested ==
    /\ codec_pc = "idle"
    /\ Finish([NoCall EXCEPT !.fn = "interested"], Message_interested)

Call_not_interested ==
    /\ codec_pc = "idle"
    /\ Finish([NoCall EXCEPT !.fn = "not_interested"], Message_not_interested)

Call_bitfield ==
    /\ codec_pc = "idle"
    /\ \E n \in 0..MaxPieces : \E done \in SUBSET (0..(n - 1)) :
        Finish([NoCall EXCEPT !.fn = "bitfield", !.pieces = n, !.complete = done],
               Message_bitfield(n, done))

Call_request ==
    /\ codec_pc = "idle"
    /\ \E pi \in U8 : \E po \in U8 :
        Finish([NoCall EXCEPT !.fn = "request", !.piece_index = pi, !.piece_offset = po],
               Message_request(pi, po, overflow_checks))

\* the caller takes the frame; the codec is ready for the next call
Next_call ==
    /\ codec_pc = "returned"
    /\ codec_pc' = "idle"
    /\ call' = NoCall
    /\ ret' = Returned(<<>>)
    /\ UNCHANGED <<overflow_checks, main_vars, swarm_vars>>

CodecNext ==
    \/ Call_choke
    \/ Call_unchoke
    \/ Call_interested
    \/ Call_not_interested
    \/ Call_bitfield
    \/ Call_request
    \/ Next_call

----------------------------------------------------------------------------
(* src/src/tracker.rs: the compact peer list *)

\* 6-byte compact peer entries a tracker may send: 4 address bytes, 2 port bytes
PeerEntries == { <<10, 0, 0, 1, 26, 225>>, <<10, 0, 0, 2, 200, 213>> }

RECURSIVE Concat(_)
Concat(ss) == IF ss = <<>> THEN <<>> ELSE Head(ss) \o Concat(Tail(ss))

RECURSIVE SeqsUpTo(_, _)
\* all sequences over S of length at most n
SeqsUpTo(S, n) ==
    IF n = 0 THEN { <<>> }
    ELSE LET shorter == SeqsUpTo(S, n - 1)
         IN  shorter \cup { Append(q, x) : q \in shorter, x \in S }

\* the "peers" strings a tracker may send: up to MaxPeers entries
TrackerBodies == { Concat(es) : es \in SeqsUpTo(PeerEntries, MaxPeers) }

RECURSIVE chunks(_, _)
\* slice::chunks(n): consecutive pieces of n bytes, the last one maybe shorter
chunks(bytes, n) ==
    IF bytes = <<>> THEN <<>>
    ELSE IF Len(bytes) <= n THEN << bytes >>
    ELSE << SubSeq(bytes, 1, n) >> \o chunks(SubSeq(bytes, n + 1, Len(bytes)), n)

\* struct Peer, as built in the loop of peer_list::deserialize
Peer(chunk) ==
    [ ip   |-> << chunk[1], chunk[2], chunk[3], chunk[4] >>,
      port |-> chunk[5] * 256 + chunk[6] ]

RECURSIVE PeersOf(_)
\* the for loop of peer_list::deserialize: a chunk of 6 bytes becomes a Peer
PeersOf(cs) ==
    IF cs = <<>> THEN <<>>
    ELSE (IF Len(Head(cs)) = 6 THEN << Peer(Head(cs)) >> ELSE <<>>) \o PeersOf(Tail(cs))

\* ByteArray<6> is a [u8; 6]: a string of any other length is not deserialized
ByteArray6(bytes) == Len(bytes) = 6

\* peer_list::deserialize
deserialize(bytes) ==
    IF ByteArray6(bytes)
    THEN [ok |-> TRUE, peers |-> PeersOf(chunks(bytes, 6))]
    ELSE [ok |-> FALSE, peers |-> <<>>]

----------------------------------------------------------------------------
(* src/src/main.rs *)

Pieces(n) == 0..(n - 1)

\* Download::from(&torrent): one PieceState per piece, all Missing (spec.md 4.2)
Download_from(n) == [p \in Pieces(n) |-> "Missing"]

\* Download::is_complete (spec.md 4.2)
is_complete(l) == \A p \in DOMAIN l : l[p] = "Complete"

\* ConnectionManager::add_peer: enqueue the address (spec.md 4.4)
add_peer(queue, peer) == Append(queue, peer)

Range(q) == { q[i] : i \in 1..Len(q) }

MainInit ==
    /\ main_pc = "args"
    /\ args_len \in {1, 2}
    /\ torrent = 0
    /\ tracker_body = <<>>
    /\ body_received = FALSE
    /\ peers = <<>>
    /\ added = <<>>
    /\ sessions = {}
    /\ ledger = Download_from(0)
    /\ outcome = "running"

\* if args.len() < 2 { println!(usage); return Ok(()) }
CheckArgs ==
    /\ main_pc = "args"
    /\ IF args_len < 2
       THEN main_pc' = "exit" /\ outcome' = "usage"
       ELSE main_pc' = "parse" /\ UNCHANGED outcome
    /\ UNCHANGED <<args_len, torrent, tracker_body, body_received, peers, added,
                   sessions, ledger>>
    /\ UNCHANGED <<codec_vars, swarm_vars>>

\* parse_torrent(&args[1]): both expect()s panic on an unreadable or malformed file
ParseTorrent ==
    /\ main_pc = "parse"
    /\ \E readable \in BOOLEAN : \E n \in 1..MaxTorrentPieces :
          IF readable
          THEN main_pc' = "tracker" /\ torrent' = n /\ UNCHANGED outcome
          ELSE main_pc' = "exit" /\ outcome' = "panic" /\ UNCHANGED torrent
    /\ UNCHANGED <<args_len, tracker_body, body_received, peers, added, sessions,
                   ledger>>
    /\ UNCHANGED <<codec_vars, swarm_vars>>

\* request_tracker(&torrent).await? : the request fails, or a body arrives and is
\* deserialized; any Err ends main
RequestTracker ==
    /\ main_pc = "tracker"
    /\ \/ /\ main_pc' = "exit"
          /\ outcome' = "error"
          /\ UNCHANGED <<tracker_body, body_received, peers>>
       \/ \E body \in TrackerBodies :
            LET r == deserialize(body)
            IN  /\ tracker_body' = body
                /\ body_received' = TRUE
                /\ IF r.ok
                   THEN main_pc' = "download" /\ peers' = r.peers /\ UNCHANGED outcome
                   ELSE main_pc' = "exit" /\ outcome' = "error" /\ UNCHANGED peers
    /\ UNCHANGED <<args_len, torrent, added, sessions, ledger>>
    /\ UNCHANGED <<codec_vars, swarm_vars>>

\* Download::from(&torrent); ConnectionManager::new(&torrent, download)
NewDownload ==
    /\ main_pc = "download"
    /\ ledger' = Download_from(torrent)
    /\ main_pc' = "add_peer"
    /\ UNCHANGED <<args_len, torrent, tracker_body, body_received, peers, added,
                   sessions, outcome>>
    /\ UNCHANGED <<codec_vars, swarm_vars>>

\* connection_manager.add_peer(tracker_response.peers[0].clone())?
\* (peers[0] panics on an empty Vec)
AddPeer ==
    /\ main_pc = "add_peer"
    /\ IF peers = <<>>
       THEN main_pc' = "exit" /\ outcome' = "panic" /\ UNCHANGED added
       ELSE main_pc' = "connect" /\ added' = add_peer(added, peers[1]) /\ UNCHANGED outcome
    /\ UNCHANGED <<args_len, torrent, tracker_body, body_received, peers, sessions,
                   ledger>>
    /\ UNCHANGED <<codec_vars, swarm_vars>>

\* connection_manager.connect_to_peers()? : for each queued address a connection
\* and a handshake; each success spawns a Peer Session, each failure drops the
\* address (spec.md 4.4)
ConnectToPeers ==
    /\ main_pc = "connect"
    /\ \E up \in SUBSET Range(added) : sessions' = up
    /\ main_pc' = "return"
    /\ UNCHANGED <<args_len, torrent, tracker_body, body_received, peers, added,
                   ledger, outcome>>
    /\ UNCHANGED <<codec_vars, swarm_vars>>

\* a spawned session, running beside main, delivers the last block of a piece and
\* the piece verifies (spec.md 4.2 receive_block)
SessionCompletesPiece ==
    /\ main_pc = "return"
    /\ sessions # {}
    /\ \E p \in DOMAIN ledger :
          /\ ledger[p] # "Complete"
          /\ ledger' = [ledger EXCEPT ![p] = "Complete"]
    /\ UNCHANGED <<main_pc, args_len, torrent, tracker_body, body_received, peers,
                   added, sessions, outcome>>
    /\ UNCHANGED <<codec_vars, swarm_vars>>

\* Ok(()) : main returns; the runtime is dropped and with it every session
ReturnOk ==
    /\ main_pc = "return"
    /\ main_pc' = "exit"
    /\ outcome' = "success"
    /\ sessions' = {}
    /\ UNCHANGED <<args_len, torrent, tracker_body, body_received, peers, added,
                   ledger>>
    /\ UNCHANGED <<codec_vars, swarm_vars>>

MainNext ==
    \/ CheckArgs
    \/ ParseTorrent
    \/ RequestTracker
    \/ NewDownload
    \/ AddPeer
    \/ ConnectToPeers
    \/ SessionCompletesPiece
    \/ ReturnOk

----------------------------------------------------------------------------
(* The Piece Ledger (Download) and the Peer Sessions, from spec.md *)

\* "depth is a tunable constant (a small fixed value)"
PipelineDepth == 2

Sessions == 1..NumSessions
PieceIds == 0..(NumPieces - 1)
BlockIds == 0..(BlocksPerPiece - 1)

None == << -1, -1 >>

\* blocks of piece p whose bit is clear
Uncompleted(bl, p) == { b \in BlockIds : bl[p][b] = "none" }

Min(S) == CHOOSE x \in S : \A y \in S : x <= y

\* next_needed_block(remote_availability, exclude): among the pieces the remote
\* has and that are not Complete, the one with the fewest remaining blocks; in
\* it the lowest uncompleted block; never a block of exclude
next_needed_block(st, bl, remote, exclude) ==
    LET open(p) == { b \in Uncompleted(bl, p) : <<p, b>> \notin exclude }
        cand == { p \in remote : st[p] # "Complete" /\ open(p) # {} }
        fewest == { p \in cand :
                      \A q \in cand : Cardinality(Uncompleted(bl, p))
                                        <= Cardinality(Uncompleted(bl, q)) }
    IN  IF cand = {} THEN None
        ELSE LET p == Min(fewest) IN << p, Min(open(p)) >>

\* a session that never finds its pipeline full
pipeline_never_full(inflight) == TRUE

\* the pipeline has room for another request
pipeline_has_room(inflight) == Len(inflight) < PipelineDepth

RECURSIVE fill_pipeline(_, _, _, _)
\* "repeatedly ask the Piece Ledger for the next needed block (excluding this
\* session's current in-flight set) and send a request, adding it to the
\* in-flight set, until either the ledger returns none or the pipeline is full"
fill_pipeline(st, bl, remote, inflight) ==
    IF ~pipeline_has_room(inflight) THEN inflight
    ELSE LET nb == next_needed_block(st, bl, remote, Range(inflight))
         IN  IF nb = None THEN inflight
             ELSE fill_pipeline(st, bl, remote, Append(inflight, nb))

\* the tail of every handler: declare interest when the remote has a piece the
\* local side lacks, top the pipeline up while unchoked and interested, and
\* withdraw interest when nothing useful is offered and all requests drained
settle(st, bl, sr) ==
    LET useful == \E p \in sr.remote : st[p] # "Complete"
        s1 == IF useful /\ ~sr.am_interested
              THEN [sr EXCEPT !.am_interested = TRUE] ELSE sr
        s2 == IF ~s1.peer_choking /\ s1.am_interested
              THEN [s1 EXCEPT !.inflight = fill_pipeline(st, bl, s1.remote, s1.inflight)]
              ELSE s1
    IN  IF ~useful /\ s2.inflight = <<>> /\ s2.am_interested
        THEN [s2 EXCEPT !.am_interested = FALSE] ELSE s2

RECURSIVE remove_request(_, _)
\* drop the matching (index, offset) from the in-flight set
remove_request(inflight, r) ==
    IF inflight = <<>> THEN <<>>
    ELSE IF Head(inflight) = r THEN Tail(inflight)
    ELSE << Head(inflight) >> \o remove_request(Tail(inflight), r)

\* a ledger that writes whatever the piece's status
receive_block_always_writes(st, p) == TRUE

\* receive_block writes unless the piece is already Complete
receive_block_writes(st, p) == st[p] # "Complete"

\* the digest of the assembled buffer equals the expected piece hash
digest_matches(bl, p) == \A b \in BlockIds : bl[p][b] = "good"

\* verification failure: "reset to Missing, clear block bitmap and buffer"
cleared == [b \in BlockIds |-> "none"]

NewSession ==
    [ phase |-> "Established", peer_choking |-> TRUE, am_interested |-> FALSE,
      remote |-> {}, inflight |-> <<>> ]

SwarmInit ==
    /\ status = [p \in PieceIds |-> "Missing"]
    /\ blocks = [p \in PieceIds |-> cleared]
    /\ local_bitfield = {}
    /\ sess = [s \in Sessions |-> NewSession]
    /\ lock_owner = 0
    /\ lock_piece = 0
    /\ last_write = "none"

Established(s) == sess[s].phase = "Established" /\ lock_owner # s

LedgerUnchanged == UNCHANGED <<status, blocks, local_bitfield, lock_owner, lock_piece, last_write>>

\* bitfield: the remote Bitfield is replaced
RecvBitfield(s, bits) ==
    /\ Established(s)
    /\ sess' = [sess EXCEPT ![s] = settle(status, blocks, [sess[s] EXCEPT !.remote = bits])]
    /\ LedgerUnchanged
    /\ UNCHANGED <<codec_vars, main_vars>>

\* have: one more bit of the remote Bitfield
RecvHave(s, p) ==
    /\ Established(s)
    /\ p \notin sess[s].remote
    /\ sess' = [sess EXCEPT ![s] =
                  settle(status, blocks, [sess[s] EXCEPT !.remote = @ \cup {p}])]
    /\ LedgerUnchanged
    /\ UNCHANGED <<codec_vars, main_vars>>

\* choke: peer_choking, and every outstanding request is dropped
RecvChoke(s) ==
    /\ Established(s)
    /\ sess' = [sess EXCEPT ![s] =
                  settle(status, blocks,
                         [sess[s] EXCEPT !.peer_choking = TRUE, !.inflight = <<>>])]
    /\ LedgerUnchanged
    /\ UNCHANGED <<codec_vars, main_vars>>

\* unchoke: the trigger to begin or resume issuing requests
RecvUnchoke(s) ==
    /\ Established(s)
    /\ sess' = [sess EXCEPT ![s] =
                  settle(status, blocks, [sess[s] EXCEPT !.peer_choking = FALSE])]
    /\ LedgerUnchanged
    /\ UNCHANGED <<codec_vars, main_vars>>

\* piece for a block that is not in flight: protocol violation, UnsolicitedPiece
RecvUnsolicitedPiece(s, p, b) ==
    /\ Established(s)
    /\ <<p, b>> \notin Range(sess[s].inflight)
    /\ sess' = [sess EXCEPT ![s] = [@ EXCEPT !.phase = "Closed", !.inflight = <<>>]]
    /\ LedgerUnchanged
    /\ UNCHANGED <<codec_vars, main_vars>>

\* piece: the request leaves the in-flight set and the payload goes to
\* receive_block, which takes the ledger lock, writes the block and marks its
\* bit; a write to a Complete piece is a no-op and the pipeline is topped up
RecvPiece(s, p, b, data) ==
    /\ Established(s)
    /\ lock_owner = 0
    /\ <<p, b>> \in Range(sess[s].inflight)
    /\ last_write' = status[p]
    /\ LET sr == [sess[s] EXCEPT !.inflight = remove_request(@, <<p, b>>)]
       IN  IF receive_block_writes(status, p)
           THEN /\ blocks' = [blocks EXCEPT ![p][b] = data]
                /\ status' = [status EXCEPT ![p] = "InProgress"]
                /\ lock_owner' = s
                /\ lock_piece' = p
                /\ sess' = [sess EXCEPT ![s] = sr]
                /\ UNCHANGED local_bitfield
           ELSE /\ sess' = [sess EXCEPT ![s] = settle(status, blocks, sr)]
                /\ UNCHANGED <<status, blocks, local_bitfield, lock_owner, lock_piece>>
    /\ UNCHANGED <<codec_vars, main_vars>>

\* receive_block, after the write: "when all blocks of a piece are marked,
\* transitions the piece to Verifying"; otherwise the call returns and the
\* session tops its pipeline up
BlockWritten(s) ==
    /\ lock_owner = s
    /\ status[lock_piece] = "InProgress"
    /\ IF Uncompleted(blocks, lock_piece) = {}
       THEN /\ status' = [status EXCEPT ![lock_piece] = "Verifying"]
            /\ UNCHANGED <<sess, lock_owner, lock_piece>>
       ELSE /\ lock_owner' = 0
            /\ lock_piece' = 0
            /\ sess' = [sess EXCEPT ![s] = settle(status, blocks, sess[s])]
            /\ UNCHANGED status
    /\ UNCHANGED <<blocks, local_bitfield, last_write>>
    /\ UNCHANGED <<codec_vars, main_vars>>

\* receive_block, verification: match -> Complete and the bit of the aggregate
\* Bitfield; mismatch -> Missing with the bitmap and buffer cleared
VerifyPiece(s) ==
    /\ lock_owner = s
    /\ status[lock_piece] = "Verifying"
    /\ LET p == lock_piece
           st == [status EXCEPT ![p] = IF digest_matches(blocks, p)
                                       THEN "Complete" ELSE "Missing"]
           bl == IF digest_matches(blocks, p) THEN blocks
                 ELSE [blocks EXCEPT ![p] = cleared]
       IN  /\ status' = st
           /\ blocks' = bl
           /\ local_bitfield' = IF digest_matches(blocks, p)
                                THEN local_bitfield \cup {p} ELSE local_bitfield
           /\ sess' = [sess EXCEPT ![s] = settle(st, bl, sess[s])]
    /\ lock_owner' = 0
    /\ lock_piece' = 0
    /\ UNCHANGED last_write
    /\ UNCHANGED <<codec_vars, main_vars>>

\* idle timeout or socket EOF: the session closes and its requests are released
CloseSession(s) ==
    /\ Established(s)
    /\ sess' = [sess EXCEPT ![s] = [@ EXCEPT !.phase = "Closed", !.inflight = <<>>]]
    /\ LedgerUnchanged
    /\ UNCHANGED <<codec_vars, main_vars>>

SwarmNext ==
    \/ \E s \in Sessions : \E bits \in SUBSET PieceIds : RecvBitfield(s, bits)
    \/ \E s \in Sessions : \E p \in PieceIds : RecvHave(s, p)
    \/ \E s \in Sessions : RecvChoke(s)
    \/ \E s \in Sessions : RecvUnchoke(s)
    \/ \E s \in Sessions : \E p \in PieceIds : \E b \in BlockIds :
          RecvUnsolicitedPiece(s, p, b)
    \/ \E s \in Sessions : \E p \in PieceIds : \E b \in BlockIds :
          \E data \in {"good", "bad"} : RecvPiece(s, p, b, data)
    \/ \E s \in Sessions : BlockWritten(s)
    \/ \E s \in Sessions : VerifyPiece(s)
    \/ \E s \in Sessions : CloseSession(s)

----------------------------------------------------------------------------
(* Specifications *)

CodecIdle ==
    /\ overflow_checks = TRUE
    /\ codec_pc = "idle"
    /\ call = NoCall
    /\ ret = Returned(<<>>)

MainIdle ==
    /\ main_pc = "exit"
    /\ args_len = 1
    /\ torrent = 0
    /\ tracker_body = <<>>
    /\ body_received = FALSE
    /\ peers = <<>>
    /\ added = <<>>
    /\ sessions = {}
    /\ ledger = Download_from(0)
    /\ outcome = "usage"

SwarmIdle ==
    /\ status = [p \in PieceIds |-> "Missing"]
    /\ blocks = [p \in PieceIds |-> cleared]
    /\ local_bitfield = {}
    /\ sess = [s \in Sessions |-> [NewSession EXCEPT !.phase = "Closed"]]
    /\ lock_owner = 0
    /\ lock_piece = 0
    /\ last_write = "none"

\* the wire codec
Init == CodecInit /\ MainIdle /\ SwarmIdle
Next == CodecNext
Spec == Init /\ [][Next]_vars

\* the entry point
InitMain == MainInit /\ CodecIdle /\ SwarmIdle
NextMain == MainNext
SpecMain == InitMain /\ [][NextMain]_vars

\* the sessions and the ledger
InitSwarm == SwarmInit /\ CodecIdle /\ MainIdle
NextSwarm == SwarmNext
SpecSwarm == InitSwarm /\ [][NextSwarm]_vars

----------------------------------------------------------------------------
(* Properties of the wire codec, checked under Spec *)

\* u32::from_be_bytes of the first four bytes of a frame
length_prefix(bytes) ==
    ((bytes[1] * 256 + bytes[2]) * 256 + bytes[3]) * 256 + bytes[4]

Pow2(k) == IF k = 0 THEN 1 ELSE IF k = 1 THEN 2 ELSE IF k = 2 THEN 4
           ELSE IF k = 3 THEN 8 ELSE IF k = 4 THEN 16 ELSE IF k = 5 THEN 32
           ELSE IF k = 6 THEN 64 ELSE 128

RECURSIVE PackedByte(_, _, _, _)
\* byte k (from 0) of the MSB-first bit-vector of `complete` over n pieces,
\* summed from bit j on
PackedByte(n, complete, k, j) ==
    IF j > 7 THEN 0
    ELSE (IF 8 * k + j < n /\ (8 * k + j) \in complete THEN Pow2(7 - j) ELSE 0)
         + PackedByte(n, complete, k, j + 1)

\* the packed bit-vector of spec.md 4.1: ceil(n / 8) bytes
PackedBits(n, complete) ==
    [k \in 1..((n + 7) \div 8) |-> PackedByte(n, complete, k - 1, 0)]

ReturnedFrom(fn) == codec_pc = "returned" /\ call.fn = fn

\* C1: every frame the codec encodes starts with the 4-byte big-endian length
\* of what follows it, so its total length is 4 + the prefix value.
C1_PrefixIsLengthOfRest ==
    (codec_pc = "returned" /\ ~ret.panicked) =>
        /\ Len(ret.bytes) >= 4
        /\ Len(ret.bytes) = 4 + length_prefix(ret.bytes)

\* C2: a request is the 17-byte frame: prefix 13, id 6, then piece index, block
\* offset in bytes and block length (2^14), each a 4-byte big-endian integer.
C2_RequestIs17Bytes ==
    ReturnedFrom("request") =>
        /\ ~ret.panicked
        /\ ret.bytes = to_be_bytes(13) \o <<6>> \o to_be_bytes(call.piece_index)
                         \o to_be_bytes(call.piece_offset * 16384) \o to_be_bytes(16384)

\* C3: choke, unchoke, interested and not_interested are each the 5-byte frame
\* 00 00 00 01 <id> with ids 0, 1, 2, 3, and no encoder emits a length prefix of 0.
C3_NoPayloadFrames ==
    /\ ReturnedFrom("choke") => ret.bytes = <<0, 0, 0, 1, 0>>
    /\ ReturnedFrom("unchoke") => ret.bytes = <<0, 0, 0, 1, 1>>
    /\ ReturnedFrom("interested") => ret.bytes = <<0, 0, 0, 1, 2>>
    /\ ReturnedFrom("not_interested") => ret.bytes = <<0, 0, 0, 1, 3>>
    /\ (codec_pc = "returned" /\ ~ret.panicked) => length_prefix(ret.bytes) # 0

\* C4: the bitfield message for n pieces has id byte 5 and a payload of exactly
\* ceil(n/8) bytes whose bit i (MSB first) is 1 exactly when piece i is Complete
\* in the ledger, padding bits 0.
C4_BitfieldIsLedgerSnapshot ==
    ReturnedFrom("bitfield") =>
        /\ ret.bytes[5] = 5
        /\ SubSeq(ret.bytes, 6, Len(ret.bytes)) = PackedBits(call.pieces, call.complete)

\* C5: request(piece_index, piece_offset) returns exactly the 8 bytes
\* 00 00 00 0D 06, piece_index, piece_offset x BLOCK_BYTES, BLOCK_BYTES.
C5_RequestIs8Bytes ==
    ReturnedFrom("request") =>
        /\ ~ret.panicked
        /\ ret.bytes = <<0, 0, 0, 13, 6, call.piece_index,
                         call.piece_offset * BLOCK_BYTES, BLOCK_BYTES>>

\* the 8-byte frame is what request returns as long as the product fits a byte
RequestIs8BytesWithoutOverflow ==
    (ReturnedFrom("request") /\ call.piece_offset * BLOCK_BYTES <= 255) =>
        /\ ~ret.panicked
        /\ ret.bytes = <<0, 0, 0, 13, 6, call.piece_index,
                         call.piece_offset * BLOCK_BYTES, BLOCK_BYTES>>

\* C10: for every piece_offset in 0..255 the offset piece_offset x BLOCK_BYTES
\* fits its 8-bit field (no overflow, panic or wrap-around), distinct block
\* indices give distinct offset bytes, and the block-length byte is 2^14.
C10_OffsetFitsAndBlockIs16K ==
    ReturnedFrom("request") =>
        /\ ~ret.panicked
        /\ call.piece_offset * BLOCK_BYTES \in U8
        /\ \A other \in U8 :
              other # call.piece_offset =>
                 LET r == Message_request(call.piece_index, other, overflow_checks)
                 IN  ~r.panicked /\ r.bytes[7] # ret.bytes[7]
        /\ ret.bytes[8] = 16384

----------------------------------------------------------------------------
(* Properties of the entry point, checked under SpecMain *)

\* C6: every (IP, port) pair of the tracker's peer list is passed to add_peer,
\* in list order, before connect_to_peers runs, so that a session is attempted
\* for each address the tracker returned.
C6_EveryPeerAdded ==
    (body_received /\ main_pc \in {"connect", "return", "exit"}) =>
        added = PeersOf(chunks(tracker_body, 6))

\* C7: once metadata and a peer list have been obtained, a run ends either in
\* success, reported only when every piece of the ledger is Complete, or in
\* NoUsablePeers.
C7_SuccessOnlyWhenComplete ==
    (main_pc = "exit" /\ peers # <<>>) =>
        \/ outcome = "success" /\ is_complete(ledger)
        \/ outcome = "NoUsablePeers"

----------------------------------------------------------------------------
(* Properties of the sessions and the ledger, checked under SpecSwarm *)

NoDuplicates(q) == \A i, j \in 1..Len(q) : i # j => q[i] # q[j]

\* C8: in every reachable state of a Peer Session the in-flight set holds at
\* most PipelineDepth requests, even when the ledger could supply more blocks,
\* and no (piece index, block offset) is in it twice.
C8_PipelineBounded ==
    \A s \in Sessions :
        /\ Len(sess[s].inflight) <= PipelineDepth
        /\ NoDuplicates(sess[s].inflight)

\* a session with a full pipeline that the ledger could still supply
C8_Witness ==
    \E s \in Sessions :
        /\ sess[s].phase = "Established"
        /\ ~sess[s].peer_choking
        /\ sess[s].am_interested
        /\ Len(sess[s].inflight) = PipelineDepth
        /\ next_needed_block(status, blocks, sess[s].remote, Range(sess[s].inflight)) # None

StatusSteps ==
    { <<"Missing", "InProgress">>, <<"InProgress", "Verifying">>,
      <<"Verifying", "Complete">>, <<"Verifying", "Missing">> }

\* what one step may do to piece p
PieceStep(p) ==
    /\ status'[p] # status[p] => <<status[p], status'[p]>> \in StatusSteps
    /\ (status[p] = "Verifying" /\ status'[p] = "Missing") => blocks'[p] = cleared
    /\ status[p] = "Complete" => status'[p] = "Complete" /\ blocks'[p] = blocks[p]
    /\ (\E s \in Sessions : \E b \in BlockIds : \E data \in {"good", "bad"} :
           status[p] = "Complete" /\ RecvPiece(s, p, b, data))
         => UNCHANGED <<status, blocks, local_bitfield>>

\* C9: under any interleaving of receive_block calls a piece's status changes
\* only along Missing -> InProgress -> Verifying -> Complete or Verifying ->
\* Missing (which clears the block bitmap); a Complete piece never changes
\* again, and a further receive_block for it leaves the ledger unchanged.
C9_StatusTransitions == [][\A p \in PieceIds : PieceStep(p)]_vars

\* a receive_block has just arrived for a piece that was already Complete
C9_Witness ==
    /\ last_write = "Complete"
    /\ \E p \in PieceIds : status[p] = "Complete"
    /\ \E p \in PieceIds : status[p] # "Complete"

====
